---- MODULE Spec2Model ----
(***************************************************************************)
(* google-docs-mcp (server.py): the OAuth credential lifecycle around the  *)
(* token file and the JSON-RPC dispatcher of POST /mcp.                    *)
(*                                                                         *)
(* Two request handlers run against one token file:                        *)
(*   - mcp_endpoint is an `async def` whose adapter calls are synchronous, *)
(*     so it runs on the event loop and at most one of its bodies is       *)
(*     between line 107 and its return at any time;                        *)
(*   - oauth2callback is a plain `def`, which the framework runs on a      *)
(*     worker thread, so its statements interleave with mcp_endpoint's.    *)
(* Each blocking statement (file test, file read, token refresh, file      *)
(* write, file removal, remote call) is one step.                          *)
(*                                                                         *)
(* Environment: the authorization server and the remote service answer     *)
(* each call with success or an error, nondeterministically.  The file     *)
(* system does not fail: `with open(TOKEN_FILE, "w")` writes the whole     *)
(* record in one step and os.remove of an existing file succeeds.  One     *)
(* oauth2callback runs at a time.  Param values other than the format tag  *)
(* are not looked at by the code before the remote call and are "v".       *)
(***************************************************************************)
EXTENDS Naturals, Sequences, FiniteSets

\* ------------------------------------------------------------ bounds
\* The wall clock runs from 0 to MaxTime.
MaxTime == 3
\* Lifetime of an access token issued by the authorization server.
TokenTTL == 1

\* ------------------------------------------------------------ values
None == "None"

SupportedMethods == {"list_docs", "get_doc", "insert_text", "format_range"}
Methods == SupportedMethods \cup {"delete_doc", None}
Formats == {"bold", "italic", "heading1", "underline"}
RequestIds == {None, "xyz"}
Codes == {None, "", "4/0Ab"}
RefreshTokens == {None, "1//rt"}
RefreshErrors == {"invalid_grant"}
RemoteErrors == {"HttpError 503"}

\* The param keys each method subscripts, in the order the call evaluates them.
RequiredParams(method) ==
    CASE method = "get_doc" -> <<"documentId">>
      [] method = "insert_text" -> <<"documentId", "text">>
      [] method = "format_range" -> <<"documentId", "start_index", "end_index", "format">>
      [] OTHER -> << >>

Range(s) == {s[i] : i \in DOMAIN s}

\* A params mapping holding the keys `keys`, its "format" entry being `fmt`.
Mapping(keys, fmt) == [k \in keys |-> IF k = "format" THEN fmt ELSE "v"]

\* Request bodies: not JSON at all, a JSON array, or a JSON object whose
\* "params" is absent/null, a non-empty array, or a mapping.
ParamsChoices(method) ==
    {[kind |-> "null", map |-> Mapping({}, None)],
     [kind |-> "list", map |-> Mapping({}, None)]}
    \cup {[kind |-> "mapping", map |-> Mapping(keys, fmt)] :
             keys \in SUBSET Range(RequiredParams(method)),
             fmt \in (IF method = "format_range" THEN Formats ELSE {None})}

NoBody == [kind |-> "none", method |-> None, params |-> [kind |-> "null", map |-> Mapping({}, None)], id |-> None]

Bodies ==
    {[kind |-> k, method |-> None, params |-> [kind |-> "null", map |-> Mapping({}, None)], id |-> None] :
        k \in {"invalid_json", "array"}}
    \cup UNION {{[kind |-> "object", method |-> m, params |-> p, id |-> i] :
                    p \in ParamsChoices(m), i \in RequestIds} : m \in Methods}

\* ------------------------------------------------------------ credentials
NoToken == [by |-> "none", at |-> 0]
\* An in-memory Credentials object (none held: NoCreds).
NoCreds == [token |-> NoToken, refresh_token |-> None, expiry |-> 0]
\* The token file: absent, or the JSON text of one credential record.
NoInfo == [token |-> NoToken, refresh_token |-> None, expiry |-> [iso |-> 0]]
NoFile == [exists |-> FALSE, data |-> NoInfo]

\* creds.to_json(): the expiry is written as a formatted timestamp.
to_json(c) ==
    [token |-> c.token, refresh_token |-> c.refresh_token, expiry |-> [iso |-> c.expiry]]

\* Credentials.from_authorized_user_info(creds_data, SCOPES): parses the expiry.
from_authorized_user_info(info) ==
    [token |-> info.token, refresh_token |-> info.refresh_token, expiry |-> info.expiry.iso]

\* creds.expired, read against the wall clock.
expired(c, clock) == clock >= c.expiry

\* A credential record as the authorization server issues it at time `clock`.
Issued(by, rt, clock) ==
    [token |-> [by |-> by, at |-> clock], refresh_token |-> rt, expiry |-> clock + TokenTTL]

\* ------------------------------------------------------------ exceptions
NoExc == [type |-> "none", status |-> 0, detail |-> << >>]
KeyError(key) == [type |-> "KeyError", status |-> 0, detail |-> <<key>>]
TypeError == [type |-> "TypeError", status |-> 0, detail |-> <<"list indices must be integers or slices, not str">>]
HTTPException(status, detail) == [type |-> "HTTPException", status |-> status, detail |-> detail]
Exception(detail) == [type |-> "Exception", status |-> 0, detail |-> detail]

\* ------------------------------------------------------------ responses
NoResp == [kind |-> "none", status |-> 0, id |-> None, result |-> << >>, error |-> << >>]
\* JSONResponse({"jsonrpc": "2.0", "id": request_id, "result": result})
ResultResponse(request_id, result) ==
    [kind |-> "envelope", status |-> 200, id |-> request_id, result |-> result, error |-> << >>]

\* ErrorResponse without the `except KeyError` clause: a missing key falls to
\* the generic clause.
ErrorResponse_NoKeyError(request_id, e) ==
    IF e.type = "HTTPException"
    THEN [kind |-> "envelope", status |-> e.status, id |-> request_id, result |-> << >>,
          error |-> e.detail]
    ELSE [kind |-> "envelope", status |-> 500, id |-> request_id, result |-> << >>,
          error |-> e.detail]

\* The except clauses of mcp_endpoint, in order.
ErrorResponse(request_id, e) ==
    IF e.type = "KeyError"
    THEN [kind |-> "envelope", status |-> 400, id |-> request_id, result |-> << >>,
          error |-> <<"missing param: ">> \o e.detail]
    ELSE IF e.type = "HTTPException"
    THEN [kind |-> "envelope", status |-> e.status, id |-> request_id, result |-> << >>,
          error |-> e.detail]
    ELSE [kind |-> "envelope", status |-> 500, id |-> request_id, result |-> << >>,
          error |-> e.detail]

\* An exception that leaves a handler: the framework answers, not the handler.
\* An HTTPException becomes its status and detail; anything else a bare 500.
FrameworkResponse(e) ==
    IF e.type = "HTTPException"
    THEN [kind |-> "http_error", status |-> e.status, id |-> None, result |-> << >>, error |-> e.detail]
    ELSE [kind |-> "unhandled", status |-> 500, id |-> None, result |-> << >>, error |-> e.detail]

\* ------------------------------------------------------------ dispatch
\* `body.get("params", {}) or {}`: an absent, null or empty params is {}.
ParamsOf(b) ==
    IF b.params.kind = "null" THEN [kind |-> "mapping", map |-> Mapping({}, None)] ELSE b.params

\* params[k] for each k of keys in turn: the first subscript that raises.
RECURSIVE Subscripts(_, _)
Subscripts(params, keys) ==
    IF keys = << >> THEN NoExc
    ELSE IF params.kind # "mapping" THEN TypeError
    ELSE IF Head(keys) \notin DOMAIN params.map THEN KeyError(Head(keys))
    ELSE Subscripts(params, Tail(keys))

\* The if/elif chain of mcp_endpoint up to the call of the adapter operation:
\* the exception raised before any adapter operation starts, or NoExc.
DispatchError(method, params) ==
    IF method \in SupportedMethods
    THEN Subscripts(params, RequiredParams(method))
    ELSE HTTPException(400, <<"Unknown method ", method>>)

\* FormatPlan without the final `else: raise`: any other tag is sent as a
\* text-style update with no field set.
FormatPlan_Fallthrough(format) ==
    IF format = "bold" THEN [ok |-> TRUE, request |-> "updateTextStyle", fields |-> "bold"]
    ELSE IF format = "italic" THEN [ok |-> TRUE, request |-> "updateTextStyle", fields |-> "italic"]
    ELSE IF format = "heading1" THEN [ok |-> TRUE, request |-> "updateParagraphStyle", fields |-> "namedStyleType"]
    ELSE [ok |-> TRUE, request |-> "updateTextStyle", fields |-> ""]

\* format_range's choice of the batchUpdate request for a format tag
\* (ok = FALSE: `raise Exception("unsupported format")`).
FormatPlan(format) ==
    IF format = "bold" THEN [ok |-> TRUE, request |-> "updateTextStyle", fields |-> "bold"]
    ELSE IF format = "italic" THEN [ok |-> TRUE, request |-> "updateTextStyle", fields |-> "italic"]
    ELSE IF format = "heading1" THEN [ok |-> TRUE, request |-> "updateParagraphStyle", fields |-> "namedStyleType"]
    ELSE [ok |-> FALSE, request |-> "", fields |-> ""]

\* ------------------------------------------------------------ state
VARIABLES
    token_file,     \* TOKEN_FILE on disk
    now,            \* the wall clock
    \* mcp_endpoint (event loop): one request at a time
    pc,             \* position in mcp_endpoint / the adapter operation / load_creds
    body,           \* the request being handled
    creds_data,     \* load_creds: the JSON read from the file
    creds,          \* load_creds: the Credentials object
    exc,            \* load_creds: the exception caught at line 87
    loaded,         \* load_creds' outcome in this request: "no", "ok", "failed"
    resp,           \* the response of the request
    loadCount,      \* load_creds calls made by this request
    refreshCount,   \* creds.refresh calls made by this request
    fileOps,        \* writes and removals of the token file made by this request
    remoteLog,      \* drive/docs calls executed by this request, in order
    \* oauth2callback (worker thread)
    cb_pc, code, flow_creds, cb_resp,
    cb_wrote,       \* this callback wrote the token file
    cb_before,      \* the token file as it would be without this callback's writes
    \* history
    invalidated,    \* a refresh failure removed the file and no callback wrote since
    lastWriter,     \* who wrote the token file last
    authAfterRead,  \* a callback wrote the file after this request's load_creds read it
    sawInvalid,     \* `invalidated` when this request's load_creds tested the file
    expiredAtCheck  \* creds.expired as line 82 evaluated it

mcpVars == <<pc, body, creds_data, creds, exc, loaded, resp, loadCount, refreshCount,
             fileOps, remoteLog, sawInvalid, expiredAtCheck>>
cbVars == <<cb_pc, code, flow_creds, cb_resp, cb_wrote, cb_before>>
vars == <<token_file, now, mcpVars, cbVars, invalidated, lastWriter, authAfterRead>>

\* A token file left by an earlier run of the server.
InitialFiles ==
    {NoFile} \cup {[exists |-> TRUE, data |-> to_json(Issued("exchange", rt, 0))] : rt \in RefreshTokens}

Init ==
    /\ token_file \in InitialFiles
    /\ now = 0
    /\ pc = "idle" /\ body = NoBody /\ creds_data = NoInfo /\ creds = NoCreds
    /\ exc = NoExc /\ loaded = "no" /\ resp = NoResp
    /\ loadCount = 0 /\ refreshCount = 0 /\ fileOps = 0 /\ remoteLog = << >>
    /\ cb_pc = "idle" /\ code = None /\ flow_creds = NoCreds /\ cb_resp = NoResp
    /\ cb_wrote = FALSE /\ cb_before = NoFile
    /\ invalidated = FALSE /\ lastWriter = "none" /\ authAfterRead = FALSE
    /\ sawInvalid = FALSE /\ expiredAtCheck = FALSE

\* Time passes.
Tick ==
    /\ now < MaxTime
    /\ now' = now + 1
    /\ UNCHANGED <<token_file, mcpVars, cbVars, invalidated, lastWriter, authAfterRead>>

\* ------------------------------------------------------------ POST /mcp
\* An exception propagating out of the try block of mcp_endpoint.
Raise(e) ==
    /\ resp' = ErrorResponse(body.id, e)
    /\ pc' = "done"

\* Lines 106-109: parse the body, read method, params and id.  Both the JSON
\* parse and body.get(...) stand before the try block.
mcp_endpoint_receive ==
    /\ pc = "idle"
    /\ \E b \in Bodies :
        /\ body' = b
        /\ IF b.kind = "invalid_json"
           THEN /\ resp' = FrameworkResponse(Exception(<<"JSONDecodeError">>))
                /\ pc' = "done"
           ELSE IF b.kind = "array"
           THEN /\ resp' = FrameworkResponse(Exception(<<"AttributeError: 'list' object has no attribute 'get'">>))
                /\ pc' = "done"
           ELSE /\ resp' = NoResp
                /\ pc' = "dispatch"
    /\ authAfterRead' = FALSE
    /\ UNCHANGED <<token_file, now, creds_data, creds, exc, loaded, loadCount, refreshCount,
                   fileOps, remoteLog, sawInvalid, expiredAtCheck, cbVars, invalidated, lastWriter>>

\* Lines 111-122: select the operation and evaluate its arguments.
mcp_endpoint_dispatch ==
    /\ pc = "dispatch"
    /\ LET e == DispatchError(body.method, ParamsOf(body))
       IN IF e = NoExc
          THEN /\ pc' = "call"
               /\ resp' = resp
          ELSE Raise(e)
    /\ UNCHANGED <<token_file, now, body, creds_data, creds, exc, loaded, loadCount, refreshCount,
                   fileOps, remoteLog, sawInvalid, expiredAtCheck, cbVars,
                   invalidated, lastWriter, authAfterRead>>

\* Lines 124-130 have built the response; the handler returns it.
mcp_endpoint_return ==
    /\ pc = "done"
    /\ pc' = "idle" /\ body' = NoBody /\ creds_data' = NoInfo /\ creds' = NoCreds
    /\ exc' = NoExc /\ loaded' = "no" /\ resp' = NoResp
    /\ loadCount' = 0 /\ refreshCount' = 0 /\ fileOps' = 0 /\ remoteLog' = << >>
    /\ sawInvalid' = FALSE /\ expiredAtCheck' = FALSE /\ authAfterRead' = FALSE
    /\ UNCHANGED <<token_file, now, cbVars, invalidated, lastWriter>>

\* ------------------------------------------------------------ load_creds
\* Every adapter operation starts with `creds = load_creds()`.
CallLoadCreds(method) ==
    /\ pc = "call"
    /\ body.method = method
    /\ pc' = "lc_exists"
    /\ loadCount' = loadCount + 1
    /\ UNCHANGED <<token_file, now, body, creds_data, creds, exc, loaded, resp, refreshCount,
                   fileOps, remoteLog, sawInvalid, expiredAtCheck, cbVars,
                   invalidated, lastWriter, authAfterRead>>

\* Lines 74-75: no token file, no credentials.
load_creds_exists ==
    /\ pc = "lc_exists"
    /\ sawInvalid' = invalidated
    /\ IF token_file.exists
       THEN /\ pc' = "lc_read"
            /\ UNCHANGED <<resp, loaded>>
       ELSE /\ Raise(HTTPException(401, <<"User not authorized. Visit /authorize">>))
            /\ loaded' = "failed"
    /\ UNCHANGED <<token_file, now, body, creds_data, creds, exc, loadCount, refreshCount,
                   fileOps, remoteLog, expiredAtCheck, cbVars,
                   invalidated, lastWriter, authAfterRead>>

\* Lines 76-82 and 95: read the file, build the Credentials, and return them
\* unless they are expired and hold a refresh token.
load_creds_read ==
    /\ pc = "lc_read"
    /\ token_file.exists
    /\ LET c == from_authorized_user_info(token_file.data)
       IN /\ creds_data' = token_file.data
          /\ creds' = c
          /\ expiredAtCheck' = expired(c, now)
          /\ IF expired(c, now) /\ c.refresh_token # None
             THEN /\ pc' = "lc_refresh"
                  /\ loaded' = loaded
             ELSE /\ pc' = "loaded"
                  /\ loaded' = "ok"
    /\ authAfterRead' = FALSE
    /\ UNCHANGED <<token_file, now, body, exc, resp, loadCount, refreshCount,
                   fileOps, remoteLog, sawInvalid, cbVars, invalidated, lastWriter>>

\* load_creds_refresh retrying a failed refresh instead of giving up.
load_creds_refresh_retry ==
    /\ pc = "lc_refresh"
    /\ refreshCount' = refreshCount + 1
    /\ \/ /\ creds' = Issued("refresh", creds.refresh_token, now)
          /\ exc' = exc
          /\ pc' = "lc_write"
       \/ \E e \in RefreshErrors :
            /\ exc' = Exception(<<e>>)
            /\ creds' = creds
            /\ pc' = IF refreshCount = 0 THEN "lc_refresh" ELSE "lc_remove"
    /\ UNCHANGED <<token_file, now, body, creds_data, loaded, resp, loadCount,
                   fileOps, remoteLog, sawInvalid, expiredAtCheck, cbVars,
                   invalidated, lastWriter, authAfterRead>>

\* Line 84: one refresh request to the authorization server, which grants a
\* new access token or answers with an error.
load_creds_refresh ==
    /\ pc = "lc_refresh"
    /\ refreshCount' = refreshCount + 1
    /\ \/ /\ creds' = Issued("refresh", creds.refresh_token, now)
          /\ exc' = exc
          /\ pc' = "lc_write"
       \/ \E e \in RefreshErrors :
            /\ exc' = Exception(<<e>>)
            /\ creds' = creds
            /\ pc' = "lc_remove"
    /\ UNCHANGED <<token_file, now, body, creds_data, loaded, resp, loadCount,
                   fileOps, remoteLog, sawInvalid, expiredAtCheck, cbVars,
                   invalidated, lastWriter, authAfterRead>>

\* load_creds_write persisting the JSON it read instead of the refreshed
\* credentials.
load_creds_write_stale ==
    /\ pc = "lc_write"
    /\ token_file' = [exists |-> TRUE, data |-> creds_data]
    /\ fileOps' = fileOps + 1
    /\ lastWriter' = "load_creds"
    /\ cb_before' = IF cb_pc = "idle" THEN cb_before ELSE token_file'
    /\ pc' = "loaded"
    /\ loaded' = "ok"
    /\ UNCHANGED <<now, body, creds_data, creds, exc, resp, loadCount, refreshCount,
                   remoteLog, sawInvalid, expiredAtCheck, cb_pc, code, flow_creds, cb_resp,
                   cb_wrote, invalidated, authAfterRead>>

\* Lines 85-86 and 95: persist the refreshed credentials and return them.
load_creds_write ==
    /\ pc = "lc_write"
    /\ token_file' = [exists |-> TRUE, data |-> to_json(creds)]
    /\ fileOps' = fileOps + 1
    /\ lastWriter' = "load_creds"
    /\ cb_before' = IF cb_pc = "idle" THEN cb_before ELSE token_file'
    /\ pc' = "loaded"
    /\ loaded' = "ok"
    /\ UNCHANGED <<now, body, creds_data, creds, exc, resp, loadCount, refreshCount,
                   remoteLog, sawInvalid, expiredAtCheck, cb_pc, code, flow_creds, cb_resp,
                   cb_wrote, invalidated, authAfterRead>>

\* load_creds_remove without the os.remove: the failure is raised and the
\* file stays.
load_creds_remove_keep ==
    /\ pc = "lc_remove"
    /\ invalidated' = TRUE
    /\ Raise(HTTPException(401, <<"Failed to refresh credentials: ">> \o exc.detail))
    /\ loaded' = "failed"
    /\ UNCHANGED <<token_file, now, body, creds_data, creds, exc, loadCount, refreshCount,
                   fileOps, remoteLog, sawInvalid, expiredAtCheck, cbVars, lastWriter,
                   authAfterRead>>

\* Lines 87-93: the refresh failed; remove the file and raise 401 with the
\* error's text.
load_creds_remove ==
    /\ pc = "lc_remove"
    /\ token_file' = NoFile
    /\ fileOps' = fileOps + 1
    /\ lastWriter' = "none"
    /\ invalidated' = TRUE
    /\ Raise(HTTPException(401, <<"Failed to refresh credentials: ">> \o exc.detail))
    /\ loaded' = "failed"
    /\ cb_before' = IF cb_pc = "idle" THEN cb_before ELSE token_file'
    /\ UNCHANGED <<now, body, creds_data, creds, exc, loadCount, refreshCount,
                   remoteLog, sawInvalid, expiredAtCheck, cb_pc, code, flow_creds, cb_resp,
                   cb_wrote, authAfterRead>>

\* ------------------------------------------------------------ adapter
\* `.execute()` of one drive/docs request: the remote answers or fails.
Execute(api, request, result) ==
    /\ pc = "loaded"
    /\ remoteLog' = Append(remoteLog, [api |-> api, request |-> request])
    /\ \/ /\ resp' = ResultResponse(body.id, result)
          /\ pc' = "done"
       \/ \E e \in RemoteErrors : Raise(Exception(<<e>>))
    /\ UNCHANGED <<token_file, now, body, creds_data, creds, exc, loaded, loadCount, refreshCount,
                   fileOps, sawInvalid, expiredAtCheck, cbVars,
                   invalidated, lastWriter, authAfterRead>>

list_docs ==
    \/ CallLoadCreds("list_docs")
    \/ /\ body.method = "list_docs"
       /\ Execute("drive.files.list", "", <<"files">>)

get_doc ==
    \/ CallLoadCreds("get_doc")
    \/ /\ body.method = "get_doc"
       /\ Execute("docs.documents.get", "", <<"title", "body">>)

insert_text ==
    \/ CallLoadCreds("insert_text")
    \/ /\ body.method = "insert_text"
       /\ Execute("docs.documents.batchUpdate", "insertText", <<"status: ok", "updates">>)

format_range ==
    \/ CallLoadCreds("format_range")
    \/ /\ body.method = "format_range"
       /\ pc = "loaded"
       /\ LET plan == FormatPlan(ParamsOf(body).map["format"])
          IN IF plan.ok
             THEN Execute("docs.documents.batchUpdate", plan.request, <<"status: ok", "updates">>)
             ELSE /\ Raise(Exception(<<"unsupported format">>))
                  /\ UNCHANGED <<token_file, now, body, creds_data, creds, exc, loaded,
                                 loadCount, refreshCount, fileOps, remoteLog, sawInvalid,
                                 expiredAtCheck, cbVars, invalidated, lastWriter, authAfterRead>>

\* ------------------------------------------------------------ GET /oauth2callback
\* oauth2callback_code without the `if not code` test.
oauth2callback_code_nocheck ==
    /\ cb_pc = "idle"
    /\ \E c \in Codes :
        /\ code' = c
        /\ cb_resp' = NoResp
        /\ cb_pc' = "fetch"
    /\ cb_wrote' = FALSE
    /\ cb_before' = token_file
    /\ UNCHANGED <<token_file, now, mcpVars, flow_creds, invalidated, lastWriter, authAfterRead>>

\* Lines 53-55: no code, HTTP 400.
oauth2callback_code ==
    /\ cb_pc = "idle"
    /\ \E c \in Codes :
        /\ code' = c
        /\ IF c = None \/ c = ""
           THEN /\ cb_resp' = FrameworkResponse(HTTPException(400, <<"No code in callback">>))
                /\ cb_pc' = "done"
           ELSE /\ cb_resp' = NoResp
                /\ cb_pc' = "fetch"
    /\ cb_wrote' = FALSE
    /\ cb_before' = token_file
    /\ UNCHANGED <<token_file, now, mcpVars, flow_creds, invalidated, lastWriter, authAfterRead>>

\* Lines 56-62: exchange the code; the token endpoint grants credentials (with
\* or without a refresh token) or rejects the code.
oauth2callback_fetch_token ==
    /\ cb_pc = "fetch"
    /\ \/ \E rt \in RefreshTokens :
            /\ flow_creds' = Issued("exchange", rt, now)
            /\ cb_pc' = "write"
            /\ cb_resp' = cb_resp
       \/ /\ cb_resp' = FrameworkResponse(Exception(<<"invalid_grant">>))
          /\ cb_pc' = "done"
          /\ flow_creds' = flow_creds
    /\ UNCHANGED <<token_file, now, mcpVars, code, cb_wrote, cb_before, invalidated, lastWriter,
                   authAfterRead>>

\* Lines 63-65: write the credentials to the token file and confirm.
oauth2callback_write ==
    /\ cb_pc = "write"
    /\ token_file' = [exists |-> TRUE, data |-> to_json(flow_creds)]
    /\ cb_wrote' = TRUE
    /\ cb_resp' = [kind |-> "html", status |-> 200, id |-> None, result |-> <<"Authorized.">>, error |-> << >>]
    /\ cb_pc' = "done"
    /\ invalidated' = FALSE
    /\ lastWriter' = "oauth2callback"
    /\ authAfterRead' = TRUE
    /\ UNCHANGED <<now, mcpVars, code, flow_creds, cb_before>>

oauth2callback_return ==
    /\ cb_pc = "done"
    /\ cb_pc' = "idle" /\ code' = None /\ flow_creds' = NoCreds /\ cb_resp' = NoResp
    /\ cb_wrote' = FALSE /\ cb_before' = NoFile
    /\ UNCHANGED <<token_file, now, mcpVars, invalidated, lastWriter, authAfterRead>>

\* ------------------------------------------------------------ specification
Next ==
    \/ Tick
    \/ mcp_endpoint_receive
    \/ mcp_endpoint_dispatch
    \/ list_docs
    \/ get_doc
    \/ insert_text
    \/ format_range
    \/ load_creds_exists
    \/ load_creds_read
    \/ load_creds_refresh
    \/ load_creds_write
    \/ load_creds_remove
    \/ mcp_endpoint_return
    \/ oauth2callback_code
    \/ oauth2callback_fetch_token
    \/ oauth2callback_write
    \/ oauth2callback_return

Spec == Init /\ [][Next]_vars

\* ------------------------------------------------------------ properties
Keys(b) == DOMAIN ParamsOf(b).map
IsMappingRequest(b) == b.kind = "object" /\ ParamsOf(b).kind = "mapping"
MissingKeys(b) == {k \in Range(RequiredParams(b.method)) : k \notin Keys(b)}
NoCredentialWork ==
    loadCount = 0 /\ refreshCount = 0 /\ fileOps = 0 /\ remoteLog = << >> /\ loaded = "no"
BatchUpdates == {i \in DOMAIN remoteLog : remoteLog[i].api = "docs.documents.batchUpdate"}
Unauthorized(r) == r.kind = "envelope" /\ r.status = 401

\* C1: a failed refresh of a stored, expired record with a refresh token ends
\* the call with 401 carrying the error's text; from the removal on the token
\* file is absent until a callback writes it; and every load_creds call that
\* starts in that period fails with 401 without a refresh or a remote call.
C1_RefreshFailureInvalidates ==
    /\ (pc = "done" /\ exc # NoExc) =>
          /\ expiredAtCheck /\ creds_data.refresh_token # None /\ refreshCount = 1
          /\ Unauthorized(resp)
          /\ resp.error = <<"Failed to refresh credentials: ">> \o exc.detail
          /\ resp.id = body.id
          /\ remoteLog = << >>
    /\ invalidated => ~token_file.exists
    /\ (pc = "done" /\ loadCount > 0 /\ sawInvalid) =>
          /\ Unauthorized(resp)
          /\ loaded = "failed"
          /\ refreshCount = 0 /\ fileOps = 0 /\ remoteLog = << >>

\* C1 witness: a request that arrived after a failed refresh removed the file
\* has been answered.
C1_Witness ==
    pc = "done" /\ loadCount = 1 /\ sawInvalid /\ invalidated /\ resp.status = 401

\* C2: after a successful refresh load_creds returns the refreshed record
\* (new access token, later expiry), and the token file holds exactly that
\* record, so reading it back yields the refreshed credentials and not the
\* original, as long as no callback has overwritten the file since.
C2_RefreshPersisted ==
    (pc \in {"loaded", "done"} /\ loaded = "ok" /\ refreshCount = 1) =>
        /\ expiredAtCheck /\ creds_data.refresh_token # None
        /\ creds.token.by = "refresh"
        /\ creds.token # creds_data.token
        /\ creds.expiry > from_authorized_user_info(creds_data).expiry
        /\ creds.refresh_token = creds_data.refresh_token
        /\ lastWriter = "load_creds" =>
              /\ token_file.exists
              /\ from_authorized_user_info(token_file.data) = creds
              /\ token_file.data # creds_data

\* C2 witness: a request whose load_creds refreshed and persisted, answered.
C2_Witness ==
    /\ pc = "done" /\ loaded = "ok" /\ refreshCount = 1 /\ lastWriter = "load_creds"
    /\ resp.status = 200

\* C3 (as claimed): when the record read is expired and has no refresh token,
\* load_creds fails with 401, the record is removed, and nothing is handed to
\* the adapter's remote call.
C3_ExpiredNeverReturned ==
    (pc = "done" /\ loadCount = 1 /\ expiredAtCheck /\ creds_data.refresh_token = None) =>
        /\ loaded = "failed"
        /\ Unauthorized(resp)
        /\ remoteLog = << >>
        /\ fileOps = 1

C5_UnsupportedFormatNoUpdate ==
    (IsMappingRequest(body) /\ body.method = "format_range" /\ "format" \in Keys(body)
        /\ ParamsOf(body).map["format"] \notin {"bold", "italic", "heading1"}) =>
        /\ BatchUpdates = {}
        /\ pc = "done" => (resp.kind = "envelope" /\ resp.status >= 400 /\ resp.error # << >>)

\* C5 witness: format_range with all params, format "underline" and usable
\* credentials, answered.
C5_Witness ==
    /\ pc = "done" /\ IsMappingRequest(body) /\ body.method = "format_range"
    /\ MissingKeys(body) = {} /\ ParamsOf(body).map["format"] = "underline"
    /\ loaded = "ok" /\ ~expiredAtCheck

\* C6 (as claimed): format_range with all params, a valid stored credential
\* and an unsupported format is answered with status 400.
C6_UnsupportedFormatIs400 ==
    (pc = "done" /\ IsMappingRequest(body) /\ body.method = "format_range"
        /\ MissingKeys(body) = {}
        /\ ParamsOf(body).map["format"] \notin {"bold", "italic", "heading1"}
        /\ loaded = "ok" /\ ~expiredAtCheck) =>
        resp.status = 400

\* C7: a callback without a code is answered 400; and a callback that fails
\* (no code, or the exchange is rejected) has written nothing: the token file
\* is what it would be had the callback not run.
C7_FailedCallbackWritesNothing ==
    /\ (cb_pc = "done" /\ code \in {None, ""}) =>
          (cb_resp.kind = "http_error" /\ cb_resp.status = 400)
    /\ (cb_pc = "done" /\ cb_resp.status # 200) =>
          (~cb_wrote /\ token_file = cb_before)
    /\ cb_wrote => (cb_pc = "done" /\ cb_resp.status = 200 /\ code \notin {None, ""})

\* C7 witness: a callback without a code answered while a record is stored.
C7_Witness ==
    cb_pc = "done" /\ code = None /\ cb_resp.status = 400 /\ token_file.exists

\* C8 (as claimed): every answer to POST /mcp is an envelope built by the
\* handler that echoes the request's id.
C8_AlwaysEnvelope ==
    pc = "done" => (resp.kind = "envelope" /\ resp.id = body.id)

\* C9: one request makes at most one refresh attempt and at most one remote
\* call, the remote call only after load_creds has returned credentials, and
\* none when load_creds failed.
C9_NoRetry ==
    /\ refreshCount <= 1
    /\ loadCount <= 1
    /\ Len(remoteLog) <= 1
    /\ remoteLog # << >> => (loaded = "ok" /\ loadCount = 1)
    /\ loaded = "failed" => remoteLog = << >>
    /\ pc \in {"lc_exists", "lc_read", "lc_refresh", "lc_write", "lc_remove"} => remoteLog = << >>

\* C9 witness: a request that refreshed once and then made its remote call.
C9_Witness ==
    pc = "done" /\ refreshCount = 1 /\ Len(remoteLog) = 1 /\ loaded = "ok"

\* C10 (as claimed): when a callback has written a record after a request's
\* load_creds read the file, the file still holds a record once that request
\* has finished.
C10_NewRecordNotLost ==
    (pc = "done" /\ authAfterRead) => token_file.exists

====
